---- MODULE Spec2Model ----
(***************************************************************************)
(* A model of the Tetris engine of src/script.js: the 7-bag randomizer,    *)
(* Piece, Board (collision, merge, clearLines), the SRS-like rotation      *)
(* kicks and the Game state machine (spawn, move, rotate, soft/hard drop,  *)
(* hold, lock-down, update), driven by the key handlers and the frame loop.*)
(*                                                                         *)
(* The grid is scaled down: the source sets COLS = 10 and ROWS = 20, the   *)
(* model checks the same code on a COLS x ROWS grid small enough to        *)
(* explore exhaustively.  Nothing else of the geometry is changed: pieces  *)
(* spawn at x = 3, y = -(matrix height) + 1, exactly as in the source.     *)
(*                                                                         *)
(* Arrays are 0-based in the source and 1-based here: grid[y][x] of the    *)
(* source is grid[y + 1][x + 1].  An empty cell (0 in the source) is the   *)
(* string Empty, a filled cell holds the kind of the piece that filled it. *)
(* shake is kept in units of 1/10000 so that it stays an integer.          *)
(***************************************************************************)
EXTENDS Integers, Sequences, FiniteSets, TLC

\* ------------------------------------------------------------------ bounds
\* Board size of the model (source: 10 x 20).
COLS == 7
ROWS == 4
\* lockDown calls explored per game.
MaxLocks == 1
\* Soft drops and falls by gravity are explored while they leave the score at or
\* below this cap (a kick can lift the piece, so their points are unbounded).
MaxScore == 3
\* Cap of the delayed-auto-shift timer explored (it grows while a key is held).
MaxDas == 0
\* Math.random() calls per shuffle whose value is unconstrained in a game (the
\* later ones return a value below 1 / (i + 1)); the bag on its own is
\* checked with all of them unconstrained.
RandFree == 1
\* Lines already cleared in the games handed to lockDown on its own.
MaxLines == 150

\* ------------------------------------------------------------ program data
DAS == 150
ARR == 40
LockDelay == 500

Empty == "0"

Kinds == <<"S", "Z", "L", "J", "T", "O", "I">>

KindSet == {Kinds[i] : i \in 1..Len(Kinds)}

TETROS(type) ==
  CASE type = "S" -> << <<0,1,1>>, <<1,1,0>>, <<0,0,0>> >>
    [] type = "Z" -> << <<1,1,0>>, <<0,1,1>>, <<0,0,0>> >>
    [] type = "L" -> << <<1,0,0>>, <<1,1,1>>, <<0,0,0>> >>
    [] type = "J" -> << <<0,0,1>>, <<1,1,1>>, <<0,0,0>> >>
    [] type = "T" -> << <<0,1,0>>, <<1,1,1>>, <<0,0,0>> >>
    [] type = "O" -> << <<1,1>>, <<1,1>> >>
    [] type = "I" -> << <<0,0,0,0>>, <<1,1,1,1>>, <<0,0,0,0>>, <<0,0,0,0>> >>

\* The kick tables, keyed by <<from, to>> ('from>to' in the source).
KICKS_default ==
  ( <<0,1>> :> << <<0,0>>, <<-1,0>>, <<-1, 1>>, <<0,-2>>, <<-1,-2>> >> ) @@
  ( <<1,0>> :> << <<0,0>>, << 1,0>>, << 1,-1>>, <<0, 2>>, << 1, 2>> >> ) @@
  ( <<1,2>> :> << <<0,0>>, << 1,0>>, << 1,-1>>, <<0, 2>>, << 1, 2>> >> ) @@
  ( <<2,1>> :> << <<0,0>>, <<-1,0>>, <<-1, 1>>, <<0,-2>>, <<-1,-2>> >> ) @@
  ( <<2,3>> :> << <<0,0>>, << 1,0>>, << 1, 1>>, <<0,-2>>, << 1,-2>> >> ) @@
  ( <<3,2>> :> << <<0,0>>, <<-1,0>>, <<-1,-1>>, <<0, 2>>, <<-1, 2>> >> ) @@
  ( <<3,0>> :> << <<0,0>>, <<-1,0>>, <<-1,-1>>, <<0, 2>>, <<-1, 2>> >> ) @@
  ( <<0,3>> :> << <<0,0>>, << 1,0>>, << 1, 1>>, <<0,-2>>, << 1,-2>> >> )

KICKS_I ==
  ( <<0,1>> :> << <<0,0>>, <<-2,0>>, << 1,0>>, <<-2,-1>>, << 1, 2>> >> ) @@
  ( <<1,0>> :> << <<0,0>>, << 2,0>>, <<-1,0>>, << 2, 1>>, <<-1,-2>> >> ) @@
  ( <<1,2>> :> << <<0,0>>, <<-1,0>>, << 2,0>>, <<-1, 2>>, << 2,-1>> >> ) @@
  ( <<2,1>> :> << <<0,0>>, << 1,0>>, <<-2,0>>, << 1,-2>>, <<-2, 1>> >> ) @@
  ( <<2,3>> :> << <<0,0>>, << 2,0>>, <<-1,0>>, << 2, 1>>, <<-1,-2>> >> ) @@
  ( <<3,2>> :> << <<0,0>>, <<-2,0>>, << 1,0>>, <<-2,-1>>, << 1, 2>> >> ) @@
  ( <<3,0>> :> << <<0,0>>, << 1,0>>, <<-2,0>>, << 1,-2>>, <<-2, 1>> >> ) @@
  ( <<0,3>> :> << <<0,0>>, <<-1,0>>, << 2,0>>, <<-1, 2>>, << 2,-1>> >> )

\* KickTable with the shared table used for every kind, the I piece included.
KickTable_shared(type, from, to) ==
  IF <<from, to>> \in DOMAIN KICKS_default THEN KICKS_default[<<from, to>>]
  ELSE << <<0,0>> >>

\* (type === 'I' ? KICKS.I : KICKS.default)[key] || [[0,0]]
KickTable(type, from, to) ==
  LET tables == IF type = "I" THEN KICKS_I ELSE KICKS_default
  IN  IF <<from, to>> \in DOMAIN tables THEN tables[<<from, to>>] ELSE << <<0,0>> >>

Min(a, b) == IF a < b THEN a ELSE b

Max(a, b) == IF a > b THEN a ELSE b

\* rotateMatrix(m, dir): res[x][N-1-y] = m[y][x] clockwise, res[W-1-x][y] = m[y][x]
\* counter-clockwise (0-based), written per cell of res (1-based).
rotateMatrix(m, dir) ==
  LET N == Len(m)
      W == Len(m[1])
  IN  [r \in 1..N |->
        [c \in 1..W |->
          IF dir > 0 THEN m[N + 1 - c][r] ELSE m[c][W + 1 - r]]]

\* ------------------------------------------------------------------- Piece
\* new Piece(type): x = 3, y = 0, rot = 0, locked = false, matrix a copy of TETROS.
NewPiece(type) ==
  [type |-> type, matrix |-> TETROS(type), x |-> 3, y |-> 0, rot |-> 0,
   locked |-> FALSE]

\* ------------------------------------------------------------------- Board
EmptyRow == [x \in 1..COLS |-> Empty]

EmptyGrid == [y \in 1..ROWS |-> EmptyRow]

\* this.grid[y].every(v => v)
RowFull(row) == \A x \in 1..Len(row) : row[x] # Empty

\* Board.collision(piece, offX, offY, mat)
collision(grid, piece, offX, offY, mat) ==
  \E y \in 0..(Len(mat) - 1) : \E x \in 0..(Len(mat[y + 1]) - 1) :
     /\ mat[y + 1][x + 1] # 0
     /\ LET nx == piece.x + x + offX
            ny == piece.y + y + offY
        IN  \/ nx < 0
            \/ nx >= COLS
            \/ ny >= Len(grid)
            \/ (ny >= 0 /\ grid[ny + 1][nx + 1] # Empty)

\* A filled cell of the piece lies on grid cell (gx, gy) (0-based).
Covers(piece, gx, gy) ==
  LET y == gy - piece.y
      x == gx - piece.x
  IN  /\ y >= 0 /\ y < Len(piece.matrix)
      /\ x >= 0 /\ x < Len(piece.matrix[y + 1])
      /\ piece.matrix[y + 1][x + 1] # 0

\* Board.merge(piece): writes piece.type into every filled cell with y >= 0.
merge(grid, piece) ==
  [gy \in 1..Len(grid) |->
    [gx \in 1..Len(grid[gy]) |->
      IF Covers(piece, gx - 1, gy - 1) THEN piece.type ELSE grid[gy][gx]]]

\* grid.splice(y, 1); grid.unshift(Array(width).fill(0))   (y 0-based)
RemoveRow(grid, y) ==
  <<[x \in 1..Len(grid[1]) |-> Empty]>>
    \o SubSeq(grid, 1, y) \o SubSeq(grid, y + 2, Len(grid))

\* clearLoop without the recheck of the index a removal shifts a row into.
RECURSIVE clearLoop_noRecheck(_, _, _)
clearLoop_noRecheck(grid, y, cleared) ==
  IF y < 0 THEN [grid |-> grid, cleared |-> cleared]
  ELSE IF RowFull(grid[y + 1])
       THEN clearLoop_noRecheck(RemoveRow(grid, y), y - 1, cleared + 1)
       ELSE clearLoop_noRecheck(grid, y - 1, cleared)

\* The loop of Board.clearLines from row y (0-based) upwards, with `cleared`
\* rows removed so far: a full row is removed and the same index is examined
\* again (y++ followed by the loop's y--).
RECURSIVE clearLoop(_, _, _)
clearLoop(grid, y, cleared) ==
  IF y < 0 THEN [grid |-> grid, cleared |-> cleared]
  ELSE IF RowFull(grid[y + 1])
       THEN clearLoop(RemoveRow(grid, y), y, cleared + 1)
       ELSE clearLoop(grid, y - 1, cleared)

\* Board.clearLines(): the new grid and the number of rows cleared.
clearLines(grid) == clearLoop(grid, Len(grid) - 1, 0)

\* --------------------------------------------------------------------- Bag
\* [pool[i], pool[j]] = [pool[j], pool[i]]   (i, j 0-based)
Swap(p, i, j) ==
  [k \in 1..Len(p) |->
    IF k = i + 1 THEN p[j + 1] ELSE IF k = j + 1 THEN p[i + 1] ELSE p[k]]

\* The values Math.floor(Math.random() * (i + 1)) takes in the iteration at
\* index i of a shuffle of n elements: any of 0 .. i in the first `free`
\* iterations, 0 (Math.random() < 1 / (i + 1)) in the later ones.
RandomIndexes(i, n, free) == IF (n - 1) - i < free THEN 0..i ELSE {0}

\* The Fisher-Yates loop of Bag.next from index i down to 1: every array it can
\* leave.
RECURSIVE shuffleFrom(_, _, _)
shuffleFrom(p, i, free) ==
  IF i <= 0 THEN {p}
  ELSE UNION { shuffleFrom(Swap(p, i, j), i - 1, free)
               : j \in RandomIndexes(i, Len(p), free) }

\* Refilled with the refill test off by one: the last kind of a bag is dropped.
Refilled_early(pool, free) ==
  IF Len(pool) <= 1 THEN shuffleFrom(Kinds, Len(Kinds) - 1, free) ELSE {pool}

\* The pool as Bag.next finds it after its refill test: refilled and shuffled
\* only when it is empty.
Refilled(pool, free) ==
  IF Len(pool) = 0 THEN shuffleFrom(Kinds, Len(Kinds) - 1, free) ELSE {pool}

\* this.#pool.pop() on the pool p (non-empty after the refill test).
Pop(p) == [kind |-> p[Len(p)], pool |-> SubSeq(p, 1, Len(p) - 1)]

\* -------------------------------------------------------------------- Game
\* The Game is one record g; every method is an operator from the record (and
\* its arguments) to the record after the call.  `fill` is the pool the next
\* Bag.next call finds after its refill test (an element of Refilled).

\* current.x = 3; current.y = -current.matrix.length + 1; rot = 0; locked = false
AtSpawn(piece) ==
  [piece EXCEPT !.x = 3, !.y = 1 - Len(piece.matrix), !.rot = 0, !.locked = FALSE]

\* Game.spawnIfNeeded()
spawnIfNeeded(g, fill) ==
  IF ~g.current.locked THEN g
  ELSE LET cur == AtSpawn(Head(g.nextQ))
           b   == Pop(fill)
           g1  == [g EXCEPT !.current = cur,
                            !.nextQ = Append(Tail(g.nextQ), NewPiece(b.kind)),
                            !.pool = b.pool,
                            !.canHold = TRUE,
                            !.lockTimer = 0,
                            !.grounded = FALSE]
       IN  IF collision(g1.grid, cur, 0, 0, cur.matrix)
           THEN [g1 EXCEPT !.over = TRUE, !.paused = TRUE]
           ELSE g1

\* level = max(1, floor(lines / 10) + 1)
LevelOf(lines) == Max(1, (lines \div 10) + 1)

\* IntervalOf without its floor of 80.
IntervalOf_noFloor(level) == 1000 - (level - 1) * 70

\* dropInterval = max(80, 1000 - (level - 1) * 70)
IntervalOf(level) == Max(80, 1000 - (level - 1) * 70)

\* Game.setLevelByLines()
setLevelByLines(g) ==
  LET lvl == LevelOf(g.lines)
  IN  [g EXCEPT !.level = lvl, !.dropInterval = IntervalOf(lvl)]

\* [0, 100, 300, 500, 800][cleared] ?? 0
LineBase(cleared) ==
  IF cleared \in 0..4 THEN <<0, 100, 300, 500, 800>>[cleared + 1] ELSE 0

\* scoreLines with the level recomputed before the award is added.
scoreLines_levelAfter(g, cleared) ==
  LET g1 == setLevelByLines([g EXCEPT !.lines = g.lines + cleared])
  IN  [g1 EXCEPT !.score = g.score + LineBase(cleared) * g1.level,
                 !.flashMs = 220,
                 !.shake = Min(6000, 2500 + cleared * 1200)]

\* The `if (cleared)` branch of lockDown: score, lines, level, effects.
scoreLines(g, cleared) ==
  LET g1 == [g EXCEPT !.score = g.score + LineBase(cleared) * g.level,
                      !.lines = g.lines + cleared]
      g2 == setLevelByLines(g1)
  IN  [g2 EXCEPT !.flashMs = 220,
                 !.shake = Min(6000, 2500 + cleared * 1200)]

\* Game.lockDown()
lockDown(g, fill) ==
  LET merged == merge(g.grid, g.current)
      cl     == clearLines(merged)
      g1     == [g EXCEPT !.grid = cl.grid, !.current.locked = TRUE]
      g2     == IF cl.cleared # 0
                THEN scoreLines(g1, cl.cleared)
                ELSE [g1 EXCEPT !.shake = Max(g1.shake, 1800)]
      g3     == spawnIfNeeded(g2, fill)
  IN  [g3 EXCEPT !.lockTimer = 0, !.grounded = FALSE, !.locks = g.locks + 1]

\* Unground leaving the lock timer as it is.
Unground_keepTimer(g) ==
  IF ~collision(g.grid, g.current, 0, 1, g.current.matrix)
  THEN [g EXCEPT !.grounded = FALSE]
  ELSE g

\* The tail of a successful move or rotation: un-ground when the piece can fall.
Unground(g) ==
  IF ~collision(g.grid, g.current, 0, 1, g.current.matrix)
  THEN [g EXCEPT !.grounded = FALSE, !.lockTimer = 0]
  ELSE g

\* The kick loop of Game.rotate over table[n..]: the game after the first
\* collision-free offset is applied and the value returned.
RECURSIVE tryKicks(_, _, _, _, _)
tryKicks(g, rotated, to, table, n) ==
  IF n > Len(table) THEN [g |-> g, ret |-> "false"]
  ELSE LET dx == table[n][1]
           dy == table[n][2]
       IN  IF ~collision(g.grid, g.current, dx, dy, rotated)
           THEN [g |-> Unground([g EXCEPT !.current.matrix = rotated,
                                          !.current.x = g.current.x + dx,
                                          !.current.y = g.current.y + dy,
                                          !.current.rot = to]),
                 ret |-> "true"]
           ELSE tryKicks(g, rotated, to, table, n + 1)

\* Game.rotate(dir): the game afterwards and the value returned (a bare
\* `return;` for the O piece).
rotate(g, dir) ==
  IF g.current.type = "O" THEN [g |-> g, ret |-> "undefined"]
  ELSE LET from    == g.current.rot
           to      == (from + (IF dir > 0 THEN 1 ELSE 3)) % 4
           rotated == rotateMatrix(g.current.matrix, dir)
           table   == KickTable(g.current.type, from, to)
       IN  tryKicks(g, rotated, to, table, 1)

\* move without its collision test.
move_unchecked(g, dx) == Unground([g EXCEPT !.current.x = g.current.x + dx])

\* Game.move(dx)
move(g, dx) ==
  IF ~collision(g.grid, g.current, dx, 0, g.current.matrix)
  THEN Unground([g EXCEPT !.current.x = g.current.x + dx])
  ELSE g

\* Game.softDrop(): the game afterwards and the value returned.
softDrop(g) ==
  IF ~collision(g.grid, g.current, 0, 1, g.current.matrix)
  THEN [g |-> [g EXCEPT !.current.y = g.current.y + 1,
                        !.score = g.score + 1,
                        !.grounded = FALSE,
                        !.lockTimer = 0],
        ret |-> "true"]
  ELSE [g |-> [g EXCEPT !.grounded = TRUE], ret |-> "false"]

\* The while loop of hardDrop and ghostY: rows the piece can fall from offset d.
RECURSIVE dropDist(_, _, _)
dropDist(grid, piece, d) ==
  IF ~collision(grid, piece, 0, d + 1, piece.matrix)
  THEN dropDist(grid, piece, d + 1)
  ELSE d

\* Game.ghostY()
ghostY(g) == g.current.y + dropDist(g.grid, g.current, 0)

\* hardDrop awarding one point per row instead of two.
hardDrop_onePoint(g, fill) ==
  LET dist == dropDist(g.grid, g.current, 0)
  IN  lockDown([g EXCEPT !.current.y = g.current.y + dist,
                         !.score = g.score + dist], fill)

\* Game.hardDrop()
hardDrop(g, fill) ==
  LET dist == dropDist(g.grid, g.current, 0)
  IN  lockDown([g EXCEPT !.current.y = g.current.y + dist,
                         !.score = g.score + dist * 2], fill)

\* holdPiece without its canHold test.
holdPiece_noGuard(g, fill) ==
  LET temp == g.hold
      g1   == [g EXCEPT !.canHold = FALSE,
                        !.hold = <<NewPiece(g.current.type)>>]
      g2   == IF Len(temp) > 0
              THEN [g1 EXCEPT !.current = NewPiece(temp[1].type)]
              ELSE LET b == Pop(fill)
                   IN  [g1 EXCEPT !.current = Head(g1.nextQ),
                                  !.nextQ = Append(Tail(g1.nextQ), NewPiece(b.kind)),
                                  !.pool = b.pool]
      g3   == [g2 EXCEPT !.current = AtSpawn(g2.current)]
      g4   == IF collision(g3.grid, g3.current, 0, 0, g3.current.matrix)
              THEN [g3 EXCEPT !.over = TRUE, !.paused = TRUE]
              ELSE g3
  IN  [g4 EXCEPT !.lockTimer = 0, !.grounded = FALSE]

\* holdPiece with over assigned the outcome of the spawn test (this.over = collision).
holdPiece_overAssigned(g, fill) ==
  IF ~g.canHold THEN g
  ELSE LET g3 == holdPiece_noGuard(g, fill)
           hit == collision(g3.grid, g3.current, 0, 0, g3.current.matrix)
       IN  [g3 EXCEPT !.over = hit, !.paused = hit]

\* Game.holdPiece()
holdPiece(g, fill) ==
  IF ~g.canHold THEN g
  ELSE LET temp == g.hold
           g1   == [g EXCEPT !.canHold = FALSE,
                             !.hold = <<NewPiece(g.current.type)>>]
           g2   == IF Len(temp) > 0
                   THEN [g1 EXCEPT !.current = NewPiece(temp[1].type)]
                   ELSE LET b == Pop(fill)
                        IN  [g1 EXCEPT !.current = Head(g1.nextQ),
                                       !.nextQ = Append(Tail(g1.nextQ), NewPiece(b.kind)),
                                       !.pool = b.pool]
           g3   == [g2 EXCEPT !.current = AtSpawn(g2.current)]
           g4   == IF collision(g3.grid, g3.current, 0, 0, g3.current.matrix)
                   THEN [g3 EXCEPT !.over = TRUE, !.paused = TRUE]
                   ELSE g3
       IN  [g4 EXCEPT !.lockTimer = 0, !.grounded = FALSE]

\* arrLoop as a single test: at most one repeat per update (if for while).
arrLoop_once(g, dir) ==
  IF g.arrTimer >= ARR
  THEN [move(g, dir) EXCEPT !.arrTimer = g.arrTimer - ARR]
  ELSE g

\* The ARR loop of update: while (arrTimer >= ARR) { move(dir); arrTimer -= ARR; }
RECURSIVE arrLoop(_, _)
arrLoop(g, dir) ==
  IF g.arrTimer >= ARR
  THEN arrLoop([move(g, dir) EXCEPT !.arrTimer = g.arrTimer - ARR], dir)
  ELSE g

\* update, step 1: elapsed time and the decay of flash and shake.
updateTimers(g, delta) ==
  [g EXCEPT !.elapsed = g.elapsed + delta,
            !.flashMs = IF g.flashMs > 0 THEN Max(0, g.flashMs - delta) ELSE g.flashMs,
            !.shake = IF g.shake > 0 THEN Max(0, g.shake - delta * 35) ELSE g.shake]

\* updateGravity keeping the time left over (elapsed -= dropInterval).
updateGravity_carry(g) ==
  IF g.elapsed >= g.dropInterval
  THEN LET r == softDrop([g EXCEPT !.elapsed = g.elapsed - g.dropInterval])
       IN  IF r.ret = "false" THEN [r.g EXCEPT !.grounded = TRUE] ELSE r.g
  ELSE g

\* updateGravity moving the piece itself, without the point softDrop adds.
updateGravity_noPoint(g) ==
  IF g.elapsed >= g.dropInterval
  THEN IF ~collision(g.grid, g.current, 0, 1, g.current.matrix)
       THEN [g EXCEPT !.elapsed = 0, !.current.y = g.current.y + 1,
                      !.grounded = FALSE, !.lockTimer = 0]
       ELSE [g EXCEPT !.elapsed = 0, !.grounded = TRUE]
  ELSE g

\* update, step 2: natural fall.
updateGravity(g) ==
  IF g.elapsed >= g.dropInterval
  THEN LET r == softDrop([g EXCEPT !.elapsed = 0])
       IN  IF r.ret = "false" THEN [r.g EXCEPT !.grounded = TRUE] ELSE r.g
  ELSE g

\* update, step 3: horizontal DAS/ARR; dir = (left ? -1 : 0) + (right ? 1 : 0).
updateHorizontal(g, delta, dir) ==
  IF dir # 0
  THEN IF g.lastDir # dir
       THEN move([g EXCEPT !.lastDir = dir, !.dasTimer = 0, !.arrTimer = 0], dir)
       ELSE LET g1 == [g EXCEPT !.dasTimer = g.dasTimer + delta]
            IN  IF g1.dasTimer >= DAS
                THEN arrLoop([g1 EXCEPT !.arrTimer = g1.arrTimer + delta], dir)
                ELSE g1
  ELSE [g EXCEPT !.lastDir = 0, !.dasTimer = 0, !.arrTimer = 0]

\* updateLock testing the timer before the delta of this update is added.
updateLock_late(g, delta, fill) ==
  IF g.grounded
  THEN LET g1 == [g EXCEPT !.lockTimer = g.lockTimer + delta]
       IN  IF ~collision(g1.grid, g1.current, 0, 1, g1.current.matrix)
           THEN [g1 EXCEPT !.grounded = FALSE, !.lockTimer = 0]
           ELSE IF g.lockTimer >= LockDelay
                THEN lockDown([g1 EXCEPT !.lockTimer = 0, !.grounded = FALSE], fill)
                ELSE g1
  ELSE g

\* updateLock locking only once the timer has passed lockDelay (> for >=).
updateLock_strict(g, delta, fill) ==
  IF g.grounded
  THEN LET g1 == [g EXCEPT !.lockTimer = g.lockTimer + delta]
       IN  IF ~collision(g1.grid, g1.current, 0, 1, g1.current.matrix)
           THEN [g1 EXCEPT !.grounded = FALSE, !.lockTimer = 0]
           ELSE IF g1.lockTimer > LockDelay
                THEN lockDown([g1 EXCEPT !.lockTimer = 0, !.grounded = FALSE], fill)
                ELSE g1
  ELSE g

\* update, step 4: lock delay.
updateLock(g, delta, fill) ==
  IF g.grounded
  THEN LET g1 == [g EXCEPT !.lockTimer = g.lockTimer + delta]
       IN  IF ~collision(g1.grid, g1.current, 0, 1, g1.current.matrix)
           THEN [g1 EXCEPT !.grounded = FALSE, !.lockTimer = 0]
           ELSE IF g1.lockTimer >= LockDelay
                THEN lockDown([g1 EXCEPT !.lockTimer = 0, !.grounded = FALSE], fill)
                ELSE g1
  ELSE g

\* const dir = (INPUT.left ? -1 : 0) + (INPUT.right ? 1 : 0)
DirOf(in) == (IF in.left THEN -1 ELSE 0) + (IF in.right THEN 1 ELSE 0)

\* update with only the game-over half of its entry test.
update_ignoresPaused(g, delta, in, fill) ==
  IF g.over THEN g
  ELSE updateLock(
         updateHorizontal(updateGravity(updateTimers(g, delta)), delta, DirOf(in)),
         delta, fill)

\* update with the lock-delay step taken before the horizontal step.
update_lockFirst(g, delta, in, fill) ==
  IF g.paused \/ g.over THEN g
  ELSE updateHorizontal(
         updateLock(updateGravity(updateTimers(g, delta)), delta, fill),
         delta, DirOf(in))

\* Game.update(delta), reading the INPUT flags `in`.
update(g, delta, in, fill) ==
  IF g.paused \/ g.over THEN g
  ELSE updateLock(
         updateHorizontal(updateGravity(updateTimers(g, delta)), delta, DirOf(in)),
         delta, fill)

\* new Game(): the field initializers draw current and the two queued pieces
\* from a fresh bag; spawnIfNeeded in the constructor finds current unlocked.
NewGame(fill) ==
  LET b1 == Pop(fill)
      b2 == Pop(b1.pool)
      b3 == Pop(b2.pool)
  IN  spawnIfNeeded(
        [grid |-> EmptyGrid, pool |-> b3.pool,
         current |-> NewPiece(b1.kind),
         nextQ |-> <<NewPiece(b2.kind), NewPiece(b3.kind)>>,
         hold |-> <<>>, canHold |-> TRUE,
         score |-> 0, lines |-> 0, level |-> 1, dropInterval |-> 1000,
         elapsed |-> 0, paused |-> FALSE, over |-> FALSE,
         lockTimer |-> 0, grounded |-> FALSE,
         flashMs |-> 0, shake |-> 0,
         dasTimer |-> 0, arrTimer |-> 0, lastDir |-> 0,
         locks |-> 0],
        b3.pool)

\* ------------------------------------------------------------------- state
\* game:  the Game object (hold is <<>> for null, else <<piece>>; locks counts
\*        the lockDown calls of this game)
\* INPUT: the held-key flags read by update
\* bag:   a Bag on its own, for the randomizer taken alone: its pool and how
\*        often next() returned each kind since the pool was last refilled
VARIABLES game, INPUT, bag

vars == <<game, INPUT, bag>>

\* Frame deltas (ms) handed to update.
Deltas == {400, 1000}

Flags == [left : BOOLEAN, right : BOOLEAN]

\* new Bag(): the pool empty, nothing returned yet
NewBag == [pool |-> <<>>, drawn |-> [k \in KindSet |-> 0]]

\* const game = new Game(), the INPUT flags all false
Init ==
  /\ game \in {NewGame(f) : f \in Refilled(<<>>, RandFree)}
  /\ INPUT = [left |-> FALSE, right |-> FALSE]
  /\ bag = NewBag

\* loop(t): game.update(delta)
Update ==
  \E delta \in Deltas : \E fill \in Refilled(game.pool, RandFree) :
    /\ game.locks < MaxLocks
    /\ game.dasTimer <= MaxDas
    /\ game' = update(game, delta, INPUT, fill)
    /\ game'.score > game.score => game'.score <= MaxScore
    /\ UNCHANGED <<INPUT, bag>>

\* game.move(dx), as a command of the Game
Move ==
  \E dx \in {-1, 1} :
    /\ game' = move(game, dx)
    /\ UNCHANGED <<INPUT, bag>>

\* keydown ROT_CW / ROT_CCW: game.rotate(1) / game.rotate(-1)
Rotate ==
  \E dir \in {-1, 1} :
    /\ game' = rotate(game, dir).g
    /\ UNCHANGED <<INPUT, bag>>

\* keydown DOWN (also on key repeat): game.softDrop()
SoftDrop ==
  /\ game' = softDrop(game).g
  /\ game'.score > game.score => game'.score <= MaxScore
  /\ UNCHANGED <<INPUT, bag>>

\* keydown HARD: game.hardDrop(), explored while fewer than `most` pieces are locked
HardDropUpTo(most) ==
  \E fill \in Refilled(game.pool, RandFree) :
    /\ game.locks < most
    /\ game' = hardDrop(game, fill)
    /\ UNCHANGED <<INPUT, bag>>

HardDrop == HardDropUpTo(MaxLocks)

\* keydown HOLD1 / HOLD2: game.holdPiece()
Hold ==
  \E fill \in Refilled(game.pool, RandFree) :
    /\ game' = holdPiece(game, fill)
    /\ UNCHANGED <<INPUT, bag>>

\* keydown PAUSE: game.paused = !game.paused
Pause ==
  /\ game' = [game EXCEPT !.paused = ~game.paused]
  /\ UNCHANGED <<INPUT, bag>>

\* keydown RESET: Object.assign(game, new Game())
Reset ==
  /\ game' \in {NewGame(f) : f \in Refilled(<<>>, RandFree)}
  /\ UNCHANGED <<INPUT, bag>>

\* keydown / keyup LEFT: INPUT.left = true / false
KeyLeft ==
  /\ INPUT' = [INPUT EXCEPT !.left = ~INPUT.left]
  /\ UNCHANGED <<game, bag>>

\* keydown / keyup RIGHT: INPUT.right = true / false
KeyRight ==
  /\ INPUT' = [INPUT EXCEPT !.right = ~INPUT.right]
  /\ UNCHANGED <<game, bag>>

\* The Game under its commands and frames, no direction key held.
Next ==
  \/ Update
  \/ Move
  \/ Rotate
  \/ SoftDrop
  \/ HardDrop
  \/ Hold
  \/ Pause
  \/ Reset

Spec == Init /\ [][Next]_vars

\* The frame loop with the direction keys: horizontal moves come from update.
NextFrame ==
  \/ Update
  \/ KeyLeft
  \/ KeyRight
  \/ Rotate
  \/ HardDrop
  \/ Hold
  \/ Pause

SpecFrame == Init /\ [][NextFrame]_vars

\* One piece after the other under frames and commands, without hold and reset.
NextPlay ==
  \/ Update
  \/ Move
  \/ Rotate
  \/ SoftDrop
  \/ HardDrop
  \/ Pause

SpecPlay == Init /\ [][NextPlay]_vars

\* The frame loop with the direction keys, without hold.
NextKeys ==
  \/ Update
  \/ KeyLeft
  \/ KeyRight
  \/ Rotate
  \/ HardDrop
  \/ Pause

SpecKeys == Init /\ [][NextKeys]_vars

\* lockDown as a function of the game it is called on.  The inputs are the
\* positions of ordinary play in which a lock clears k rows: the k bottom rows
\* are full but for column c, the current piece is the I piece turned upright
\* in that column, and lines, level and dropInterval are those of a game that
\* cleared `lines` rows one at a time.  They keep what the Game keeps: no full
\* row on the board, the current piece free of collision, level and
\* dropInterval set from lines.
Well(k, c) ==
  [y \in 1..ROWS |->
    [x \in 1..COLS |-> IF y > ROWS - k /\ x # c + 1 THEN "J" ELSE Empty]]

Upright(piece, c) ==
  [piece EXCEPT !.matrix = rotateMatrix(piece.matrix, 1), !.rot = 1,
                !.x = c - 2, !.y = ROWS - 4]

\* The score of `lines` rows cleared one at a time: 100 * level each, the level
\* rising by one every 10 rows.
SinglesScore(lines) ==
  LET q == lines \div 10
      r == lines % 10
  IN  100 * (lines + 5 * q * (q - 1) + r * q)

LockInput(f, k, c, lines) ==
  LET g == NewGame(f)
  IN  setLevelByLines([g EXCEPT !.grid = Well(k, c),
                                !.current = Upright(g.current, c),
                                !.lines = lines,
                                !.score = SinglesScore(lines)])

InitLock ==
  /\ game \in { LockInput(f, k, c, lines) :
                  f \in {s \in Refilled(<<>>, RandFree) : s[Len(s)] = "I"},
                  k \in 0..Min(4, ROWS), c \in {0, COLS - 1}, lines \in 0..MaxLines }
  /\ INPUT = [left |-> FALSE, right |-> FALSE]
  /\ bag = NewBag

\* game.lockDown()
LockDown ==
  \E fill \in Refilled(game.pool, RandFree) :
    /\ game.locks < MaxLocks
    /\ game' = lockDown(game, fill)
    /\ UNCHANGED <<INPUT, bag>>

SpecLock == InitLock /\ [][LockDown]_vars

\* hardDrop as a function of the game it is called on: the games handed to
\* lockDown above with the upright I piece h rows higher over its well, or
\* resting in it, grounded with lock time run up.
DropInput(f, k, c, lines, h, lt) ==
  LET g == LockInput(f, k, c, lines)
  IN  [g EXCEPT !.current.y = g.current.y - h,
                !.grounded = (lt > 0),
                !.lockTimer = lt]

InitDrop ==
  /\ game \in UNION { { DropInput(f, k, c, lines, h, lt) :
                          lt \in (IF h = 0 THEN {0, 400} ELSE {0}) } :
                        f \in {s \in Refilled(<<>>, RandFree) : s[Len(s)] = "I"},
                        k \in 0..Min(4, ROWS), c \in {0, COLS - 1},
                        lines \in {0, 9, 10, 139, MaxLines},
                        h \in 0..3 }
  /\ INPUT = [left |-> FALSE, right |-> FALSE]
  /\ bag = NewBag

SpecDrop == InitDrop /\ [][HardDrop]_vars

\* Board.clearLines as a function of the grid: every grid whose rows are each
\* empty, full, or one of two part-filled rows.
RowShapes ==
  { EmptyRow,
    [x \in 1..COLS |-> "T"],
    [x \in 1..COLS |-> IF x = 1 THEN Empty ELSE "L"],
    [x \in 1..COLS |-> IF x > 2 THEN Empty ELSE "S"] }

InitClear ==
  /\ \E f \in Refilled(<<>>, 0) : \E grid \in [1..ROWS -> RowShapes] :
       game = [NewGame(f) EXCEPT !.grid = grid]
  /\ INPUT = [left |-> FALSE, right |-> FALSE]
  /\ bag = NewBag

\* const cleared = this.board.clearLines()
ClearLines ==
  /\ game' = [game EXCEPT !.grid = clearLines(game.grid).grid]
  /\ UNCHANGED <<INPUT, bag>>

SpecClear == InitClear /\ [][ClearLines]_vars

\* The Bag on its own: new Bag(), then next() again and again, every
\* Math.random() unconstrained.
InitBag ==
  /\ game \in {NewGame(f) : f \in Refilled(<<>>, 0)}
  /\ INPUT = [left |-> FALSE, right |-> FALSE]
  /\ bag = NewBag

\* bag.next()
BagNext ==
  \E fill \in Refilled(bag.pool, Len(Kinds) - 1) :
    LET b == Pop(fill)
        since == IF Len(bag.pool) = 0 THEN NewBag.drawn ELSE bag.drawn
    IN  /\ bag' = [pool |-> b.pool,
                   drawn |-> [since EXCEPT ![b.kind] = since[b.kind] + 1]]
        /\ UNCHANGED <<game, INPUT>>

SpecBag == InitBag /\ [][BagNext]_vars

\* ------------------------------------------------------------------ claims
FreshGames == {NewGame(f) : f \in Refilled(<<>>, RandFree)}

\* C1: in every reachable state in which the game is not over, every filled
\* cell of the current piece lies between the side walls, above the floor and,
\* when on the board, on an empty cell: the piece does not collide at its own
\* position.
C1_CurrentPieceFree ==
  ~game.over =>
    LET m == game.current.matrix
    IN  \A y \in 1..Len(m) : \A x \in 1..Len(m[y]) :
          m[y][x] # 0 =>
            LET nx == game.current.x + x - 1
                ny == game.current.y + y - 1
            IN  /\ nx >= 0 /\ nx < COLS /\ ny < ROWS
                /\ ny >= 0 => game.grid[ny + 1][nx + 1] = Empty

\* A second piece, turned and shifted, resting on the locked first one.
C1_Witness ==
  /\ ~game.over /\ game.locks = 1 /\ game.grounded
  /\ game.current.rot = 1 /\ game.current.x # 3
  /\ \E x \in 1..COLS : game.grid[ROWS - 1][x] # Empty

\* C2: whenever a piece stands at its spawn position (just spawned by lockDown
\* or swapped in by holdPiece) and the top visible row is occupied in one of
\* the columns the piece spans, the game is over and paused, for every kind.
C2_SpawnOnOccupiedTopEndsGame ==
  LET cur  == game.current
      m    == cur.matrix
      cols == {cur.x + x - 1 : x \in {x \in 1..Len(m[1]) : \E y \in 1..Len(m) : m[y][x] # 0}}
  IN  (/\ cur = AtSpawn(NewPiece(cur.type))
       /\ \E c \in cols : game.grid[1][c + 1] # Empty)
      => (game.over /\ game.paused)

\* C3: once over is true it stays true under update, move, rotate, softDrop,
\* hardDrop, holdPiece and the pause toggle, whatever their arguments; a step
\* that leaves over false again leaves a fresh Game (reset).
C3_GameOverIsTerminal ==
  /\ [](game.over =>
          /\ \A fill \in Refilled(game.pool, RandFree) :
               /\ \A delta \in Deltas : \A in \in Flags :
                    update(game, delta, in, fill).over
               /\ hardDrop(game, fill).over
               /\ holdPiece(game, fill).over
          /\ \A d \in {-1, 1} : move(game, d).over /\ rotate(game, d).g.over
          /\ softDrop(game).g.over)
  /\ [][(game.over /\ ~game'.over) => game' \in FreshGames]_vars

\* The game is over and was un-paused and held into afterwards.
C3_Witness == game.over /\ ~game.paused /\ ~game.canHold /\ game.locks = 1

\* C9: a holdPiece call made while canHold is false changes nothing; a call
\* made while it is true leaves it false; and canHold turns true again only in
\* a step that locks a piece and spawns the next (or resets the game).
C9_HoldOncePerPiece ==
  /\ [](\A fill \in Refilled(game.pool, RandFree) :
          /\ ~game.canHold => holdPiece(game, fill) = game
          /\ game.canHold => ~holdPiece(game, fill).canHold)
  /\ [][(~game.canHold /\ game'.canHold) =>
          \/ /\ game'.locks = game.locks + 1
             /\ game'.current = AtSpawn(NewPiece(game.nextQ[1].type))
          \/ game' \in FreshGames]_vars

\* A piece was held, a piece was locked, and the hold was used again.
C9_Witness == ~game.canHold /\ Len(game.hold) = 1 /\ game.locks = 1 /\ ~game.over

\* C10: with an O piece current, rotate(dir) returns false and leaves the game
\* (matrix, orientation, position, grounded, lock timer) unchanged, for both
\* directions.
C10_RotateOReturnsFalse ==
  game.current.type = "O" =>
    \A dir \in {-1, 1} : rotate(game, dir) = [g |-> game, ret |-> "false"]

\* C4: while paused or over is true, update(delta) leaves the whole Game
\* unchanged (board, current piece, score, lines, level, elapsed, lockTimer,
\* grounded, the DAS/ARR timers, flash and shake), for every delta and every
\* state of the left/right flags.
C4_UpdateNoOpWhenPausedOrOver ==
  (game.paused \/ game.over) =>
    \A delta \in Deltas \cup {0, 16} : \A in \in Flags :
      \A fill \in Refilled(game.pool, RandFree) :
        update(game, delta, in, fill) = game

\* Paused in mid-play: the piece fallen to the floor and grounded with lock time
\* run up, a direction held with the auto-shift timer running.
C4_Witness ==
  /\ game.paused /\ ~game.over
  /\ game.grounded /\ game.lockTimer > 0
  /\ game.lastDir # 0 /\ INPUT.left /\ game.dasTimer > 0
  /\ game.score > 0

\* C5: a lockDown that clears n rows (n the number of full rows once the piece
\* is merged) adds [0,100,300,500,800][n] times the level before the lock to
\* score and n to lines; with n = 0 score, lines, level and dropInterval are
\* unchanged.
C5_LockDownAward ==
  [][game'.locks = game.locks + 1 =>
       LET merged == merge(game.grid, game.current)
           n      == Cardinality({y \in 1..Len(merged) : RowFull(merged[y])})
       IN  /\ game'.score = game.score + <<0, 100, 300, 500, 800>>[n + 1] * game.level
           /\ game'.lines = game.lines + n
           /\ n = 0 => /\ game'.level = game.level
                       /\ game'.dropInterval = game.dropInterval]_vars

\* Four rows cleared at 9 lines, level 1: 800 points at the old level, then
\* level 2.
C5_Witness ==
  /\ game.locks = 1 /\ game.lines = 13 /\ game.score = 1700
  /\ game.level = 2 /\ game.dropInterval = 930

\* C6: in every state level = max(1, floor(lines/10) + 1) and dropInterval =
\* max(80, 1000 - (level-1)*70); lines 0 gives 1 and 1000, lines 10 gives 2 and
\* 930, lines 140 gives 15 and 80; no step lowers level, raises dropInterval or
\* takes it below 80.
C6_LevelCurve ==
  /\ [](LET want == (game.lines \div 10) + 1
            ms   == 1000 - (game.level - 1) * 70
        IN  /\ game.level = (IF want < 1 THEN 1 ELSE want)
            /\ game.dropInterval = (IF ms < 80 THEN 80 ELSE ms)
            /\ game.dropInterval >= 80
            /\ game.lines = 0 => (game.level = 1 /\ game.dropInterval = 1000)
            /\ game.lines = 10 => (game.level = 2 /\ game.dropInterval = 930)
            /\ game.lines = 140 => (game.level = 15 /\ game.dropInterval = 80))
  /\ [][/\ game'.level >= game.level
        /\ game'.dropInterval <= game.dropInterval]_vars

\* 140 lines reached by a lock: level 15 at the floor of 80 ms.
C6_Witness ==
  /\ game.locks = 1 /\ game.lines = 140 /\ game.flashMs = 220
  /\ game.level = 15 /\ game.dropInterval = 80

\* C7: for every grid, clearLines returns the number of full rows and leaves a
\* grid of the same height: that many empty rows on top, then the rows that
\* were not full, in their order and with their content.
C7_ClearLines ==
  LET grid == game.grid
      r    == clearLines(grid)
      kept == SelectSeq(grid, LAMBDA row : \E x \in 1..Len(row) : row[x] = Empty)
      n    == Len(grid) - Len(kept)
  IN  /\ r.cleared = n
      /\ Len(r.grid) = Len(grid)
      /\ r.grid = [y \in 1..n |-> [x \in 1..COLS |-> Empty]] \o kept
      /\ \A y \in 1..Len(r.grid) : \E x \in 1..COLS : r.grid[y][x] = Empty

\* Two adjacent full rows under a part-filled row, a full row on top.
C7_Witness ==
  /\ RowFull(game.grid[ROWS]) /\ RowFull(game.grid[ROWS - 1])
  /\ ~RowFull(game.grid[ROWS - 2]) /\ game.grid[ROWS - 2] # EmptyRow
  /\ RowFull(game.grid[1])
  /\ clearLines(game.grid).cleared = 3

\* C8: whatever Math.random() returns, the pool grows only when it is empty
\* (and then holds 7 kinds, one of them returned at once), and the next()
\* calls since a refill never return a kind twice, so the 7 calls that start
\* at a refill return each of S, Z, L, J, T, O, I exactly once.
C8_BagIsAPermutation ==
  /\ [](LET n == Cardinality({k \in KindSet : bag.drawn[k] > 0})
        IN  /\ \A k \in KindSet : bag.drawn[k] <= 1
            /\ n > 0 => n + Len(bag.pool) = 7
            /\ \A i \in 1..Len(bag.pool) : bag.drawn[bag.pool[i]] = 0)
  /\ [][Len(bag'.pool) >= Len(bag.pool) =>
          (Len(bag.pool) = 0 /\ Len(bag'.pool) = 6)]_vars

\* Seven calls after a refill: the pool is empty again, every kind returned once.
C8_Witness ==
  /\ Len(bag.pool) = 0
  /\ \A k \in KindSet : bag.drawn[k] = 1

\* C11: for a non-O piece rotate(dir) goes through the 5 offsets of the
\* (from, to) entry of its table (KICKS.I for I, KICKS.default for the others)
\* in order, (0,0) first, and applies the first one at which the rotated matrix
\* is collision-free, with orientation (from+1) mod 4 or (from+3) mod 4; when
\* all 5 collide it returns false and changes nothing.
C11_RotateKicks ==
  game.current.type # "O" =>
    \A dir \in {-1, 1} :
      LET cur     == game.current
          from    == cur.rot
          to      == IF dir > 0 THEN (from + 1) % 4 ELSE (from + 3) % 4
          table   == IF cur.type = "I" THEN KICKS_I[<<from, to>>]
                     ELSE KICKS_default[<<from, to>>]
          rotated == rotateMatrix(cur.matrix, dir)
          free    == {n \in 1..5 :
                        ~collision(game.grid, cur, table[n][1], table[n][2], rotated)}
          r       == rotate(game, dir)
      IN  /\ Len(table) = 5 /\ table[1] = <<0, 0>>
          /\ free = {} => r = [g |-> game, ret |-> "false"]
          /\ free # {} =>
                LET n == CHOOSE n \in free : \A k \in free : n <= k
                IN  /\ r.ret = "true"
                    /\ r.g.grid = game.grid
                    /\ r.g.current = [cur EXCEPT !.matrix = rotated,
                                                 !.x = cur.x + table[n][1],
                                                 !.y = cur.y + table[n][2],
                                                 !.rot = to]

\* A piece that cannot turn clockwise at any of the 5 offsets and turns
\* counter-clockwise only with a sideways kick.
C11_Witness ==
  /\ game.current.type # "O" /\ ~game.over
  /\ rotate(game, 1).ret = "false"
  /\ rotate(game, -1).ret = "true"
  /\ rotate(game, -1).g.current.x # game.current.x

\* C12: hardDrop moves the current piece straight down by n rows, to the row
\* ghostY() reports before the call, and locks it there in the same call
\* whatever grounded and the lock timer are: score grows by 2n plus the
\* line-clear award of the rows the piece completes and never shrinks, the
\* board holds the piece at that row (full rows removed), and the head of the
\* queue is current afterwards at its spawn position.
C12_HardDrop ==
  \A fill \in Refilled(game.pool, RandFree) :
    LET cur    == game.current
        free   == {d \in 0..(ROWS + 4) :
                     \A e \in 1..d : ~collision(game.grid, cur, 0, e, cur.matrix)}
        n      == CHOOSE d \in free : \A e \in free : e <= d
        landed == [cur EXCEPT !.y = cur.y + n]
        merged == merge(game.grid, landed)
        kept   == SelectSeq(merged, LAMBDA row : \E x \in 1..Len(row) : row[x] = Empty)
        k      == Len(merged) - Len(kept)
        r      == hardDrop(game, fill)
    IN  /\ ghostY(game) = cur.y + n
        /\ r.score = game.score + 2 * n + <<0, 100, 300, 500, 800>>[k + 1] * game.level
        /\ r.score >= game.score
        /\ r.lines = game.lines + k
        /\ r.grid = [y \in 1..k |-> EmptyRow] \o kept
        /\ r.current = AtSpawn(NewPiece(game.nextQ[1].type))
        /\ r.locks = game.locks + 1
        /\ r.lockTimer = 0 /\ ~r.grounded

\* After a hard drop of 3 rows that cleared four rows at 9 lines and level 1:
\* 900 + 2 * 3 + 800 points.
C12_Witness ==
  /\ game.locks = 1 /\ game.lines = 13 /\ game.score = 1706 /\ game.level = 2

\* Deltas and held directions (none, left, right) tried on every reachable state
\* by the statements about one update.
ProbeDeltas == {99, 100, 1000}

ProbeFlags ==
  { [left |-> FALSE, right |-> FALSE],
    [left |-> TRUE, right |-> FALSE],
    [left |-> FALSE, right |-> TRUE] }

\* The piece of game g, shifted by (dx, dy), lies between the walls, above the
\* floor and on empty cells.
Fits(g, dx, dy) ==
  \A y \in 1..Len(g.current.matrix) : \A x \in 1..Len(g.current.matrix[y]) :
    g.current.matrix[y][x] # 0 =>
      LET nx == g.current.x + x - 1 + dx
          ny == g.current.y + y - 1 + dy
      IN  /\ nx >= 0 /\ nx < COLS /\ ny < ROWS
          /\ ny >= 0 => g.grid[ny + 1][nx + 1] = Empty

\* The piece of game g can move down one row.
CanFall(g) == Fits(g, 0, 1)

\* C13: an update (game running) that leaves the piece grounded and unlocked
\* has added its delta to the lock timer and the sum is below 500; an update
\* locks the piece only when the timer plus its delta reaches 500, and does
\* lock it whenever the piece is grounded after the gravity and horizontal
\* steps, cannot fall, and the sum reaches 500; and after any update, move,
\* rotate or softDrop that leaves the piece able to fall, grounded is false and
\* the lock timer is 0.
C13_LockDelay ==
  /\ \A fill \in Refilled(game.pool, RandFree) :
       \A delta \in ProbeDeltas : \A in \in ProbeFlags :
         LET r   == update(game, delta, in, fill)
             mid == updateHorizontal(updateGravity(updateTimers(game, delta)),
                                     delta, DirOf(in))
         IN  /\ (~game.paused /\ ~game.over) =>
                   /\ (r.locks = game.locks /\ r.grounded) =>
                         /\ r.lockTimer = game.lockTimer + delta
                         /\ r.lockTimer < 500
                   /\ r.locks # game.locks => game.lockTimer + delta >= 500
                   /\ (mid.grounded /\ ~CanFall(mid)) =>
                         (r.locks = game.locks + 1 <=> game.lockTimer + delta >= 500)
             /\ CanFall(r) => (~r.grounded /\ r.lockTimer = 0)
  /\ \A d \in {-1, 1} :
       /\ CanFall(move(game, d)) =>
             (~move(game, d).grounded /\ move(game, d).lockTimer = 0)
       /\ CanFall(rotate(game, d).g) =>
             (~rotate(game, d).g.grounded /\ rotate(game, d).g.lockTimer = 0)
  /\ CanFall(softDrop(game).g) =>
        (~softDrop(game).g.grounded /\ softDrop(game).g.lockTimer = 0)

\* A running game whose piece rests on the floor with 400 ms of lock time
\* accumulated by an update: 100 ms more lock it, 99 ms do not.
C13_Witness ==
  /\ ~game.paused /\ ~game.over /\ game.locks = 0
  /\ game.grounded /\ game.lockTimer = 400 /\ ~CanFall(game)
  /\ \A fill \in Refilled(game.pool, RandFree) :
       /\ update(game, 100, INPUT, fill).locks = 1
       /\ update(game, 99, INPUT, fill).locks = 0

\* Moves attempted by the horizontal step of one update of game g with `delta`
\* and direction dir: one on a new direction, none until 150 ms of the same
\* direction have accumulated, then one per 40 ms of repeat time.
Attempts(g, delta, dir) ==
  IF dir = 0 THEN 0
  ELSE IF g.lastDir # dir THEN 1
  ELSE IF g.dasTimer + delta >= 150 THEN (g.arrTimer + delta) \div 40
  ELSE 0

\* Columns the piece of game g travels in k attempts towards dir, dy rows lower.
SlideDist(g, dir, dy, k) ==
  LET ok == {j \in 0..k : \A i \in 1..j : Fits(g, dir * i, dy)}
  IN  CHOOSE j \in ok : \A i \in ok : i <= j

\* C14: when the gravity step of an update grounds the piece (the fall is due
\* and the piece cannot move down) and a horizontal move of the same update
\* takes it to a column where it can fall, the update ends with the piece
\* moved, un-grounded, the lock timer 0 and nothing locked, for every delta.
C14_MoveBeforeLock ==
  (~game.paused /\ ~game.over) =>
    \A fill \in Refilled(game.pool, RandFree) :
      \A delta \in ProbeDeltas : \A in \in ProbeFlags :
        LET dir == (IF in.left THEN -1 ELSE 0) + (IF in.right THEN 1 ELSE 0)
            j   == SlideDist(game, dir, 0, Attempts(game, delta, dir))
            r   == update(game, delta, in, fill)
        IN  (/\ game.elapsed + delta >= game.dropInterval
             /\ ~CanFall(game)
             /\ \E i \in 1..j : Fits(game, dir * i, 1))
            => /\ r.locks = game.locks
               /\ r.grid = game.grid
               /\ r.current = [game.current EXCEPT !.x = game.current.x + dir * j]
               /\ ~r.grounded /\ r.lockTimer = 0

\* A running game whose piece rests un-grounded on the locked first piece and
\* falls free one column to the left: a 1000 ms update with left held
\* grounds it, moves it and does not lock it, although 1000 >= 500.
C14_Witness ==
  /\ ~game.paused /\ ~game.over /\ game.locks = 1
  /\ ~game.grounded /\ ~CanFall(game) /\ Fits(game, -1, 1)
  /\ game.elapsed + 1000 >= game.dropInterval
  /\ \A fill \in Refilled(game.pool, RandFree) :
       LET r == update(game, 1000, [left |-> TRUE, right |-> FALSE], fill)
       IN  r.locks = 1 /\ r.current.x = game.current.x - 1 /\ ~r.grounded

\* The commands and frames of one round of stalling: rotate(-1), three updates
\* of 400 ms with no direction held, rotate(1).  StallSteps(g, fill)[i] is the
\* game after i of them.
StallSteps(g, fill) ==
  LET none == [left |-> FALSE, right |-> FALSE]
      a    == rotate(g, -1).g
      b    == update(a, 400, none, fill)
      c    == update(b, 400, none, fill)
      d    == update(c, 400, none, fill)
      e    == rotate(d, 1).g
  IN  <<a, b, c, d, e>>

\* A running game at level 1, no key held and no effect decaying, whose piece
\* can fall, rests on something once turned counter-clockwise, and turns back
\* into its place.
CanStall(g) ==
  /\ ~g.paused /\ ~g.over
  /\ g.elapsed = 0 /\ g.dropInterval = 1000
  /\ ~g.grounded /\ g.lockTimer = 0
  /\ g.lastDir = 0 /\ g.dasTimer = 0 /\ g.arrTimer = 0
  /\ g.flashMs = 0 /\ g.shake = 0
  /\ CanFall(g)
  /\ rotate(g, -1).ret = "true" /\ ~CanFall(rotate(g, -1).g)
  /\ rotate(rotate(g, -1).g, 1).g.current = g.current

\* C15: nothing caps the lock-delay resets.  From every such game the round
\* rotate(-1), update(400) three times, rotate(1) grounds the piece and runs
\* the lock timer up to 400 ms, resets it by the rotation back, locks nothing
\* and ends in the very game it started from: the round can be repeated
\* forever, update being called with positive deltas all along, and the piece
\* is never locked.
C15_NoCapOnLockResets ==
  CanStall(game) =>
    \A fill \in Refilled(game.pool, RandFree) :
      LET s == StallSteps(game, fill)
      IN  /\ \A i \in 1..5 : s[i].locks = game.locks /\ ~s[i].current.locked
          /\ s[3].elapsed = 800
          /\ s[4].grounded /\ s[4].lockTimer = 400
          /\ s[5] = game

\* Such a game, its first piece still current after falling by gravity.
C15_Witness ==
  CanStall(game) /\ game.locks = 0 /\ game.score > 0

\* Deltas tried on every reachable state by the statements about auto-repeat.
RepeatDeltas == {16, 149, 150, 400}

\* The horizontal step of one update as stated, the repeat starting once the
\* time the direction has been held is at least 150 ms (or, `strict`, more
\* than 150 ms): lastDir and the two timers afterwards, and the columns
\* travelled by the piece, which gravity may have taken one row down first.
AutoRepeatAsStated(strict) ==
  (~game.paused /\ ~game.over) =>
    \A fill \in Refilled(game.pool, RandFree) :
      \A delta \in RepeatDeltas : \A in \in Flags :
        LET dir   == (IF in.left THEN -1 ELSE 0) + (IF in.right THEN 1 ELSE 0)
            held  == game.dasTimer + delta
            began == IF strict THEN held > 150 ELSE held >= 150
            k     == IF dir = 0 THEN 0
                     ELSE IF game.lastDir # dir THEN 1
                     ELSE IF began THEN (game.arrTimer + delta) \div 40
                     ELSE 0
            dy    == IF game.elapsed + delta >= game.dropInterval /\ CanFall(game)
                     THEN 1 ELSE 0
            r     == update(game, delta, in, fill)
        IN  /\ r.lastDir = dir
            /\ (dir = 0 \/ game.lastDir # dir) => (r.dasTimer = 0 /\ r.arrTimer = 0)
            /\ (dir # 0 /\ game.lastDir = dir) =>
                  /\ r.dasTimer = held
                  /\ r.arrTimer = IF began THEN (game.arrTimer + delta) % 40
                                  ELSE game.arrTimer
                  /\ r.arrTimer < 40
            /\ r.locks = game.locks =>
                  /\ r.current.x = game.current.x + dir * SlideDist(game, dir, dy, k)
                  /\ r.current.y = game.current.y + dy

\* C16 as stated: no repeat until the held time exceeds 150 ms.
C16_AutoRepeat ==
  AutoRepeatAsStated(TRUE)

\* C16, amended: as stated, except that the repeat begins in the update in
\* which the held time reaches 150 ms (>= 150, not > 150): one move on a new
\* direction with both timers reset, no move while the held time is below 150
\* ms, then one move per 40 ms of repeat time, several in one update, leaving
\* the repeat timer below 40; no direction held resets lastDir and both timers.
C16_AutoRepeatFrom150 ==
  AutoRepeatAsStated(FALSE)

\* Left held through a second update of 400 ms: ten repeats took the piece to
\* the wall and left the repeat timer at 0.
C16_Witness ==
  /\ ~game.over /\ game.locks = 0
  /\ INPUT.left /\ ~INPUT.right /\ game.lastDir = -1
  /\ game.dasTimer = 400 /\ game.arrTimer = 0
  /\ game.current.x <= 1

\* Deltas tried on every reachable state by the statements about gravity.
GravityDeltas == {199, 200, 3000}

\* C17: in an update of a running game, elapsed grows by delta while the sum
\* stays below dropInterval; when the sum reaches dropInterval, elapsed is 0
\* afterwards and the piece is exactly one row lower if it could fall (also
\* when delta is several intervals long), and nothing is locked; if it could
\* not fall it stays in its row, and it is locked in this update only if the
\* lock timer plus delta reaches 500, else it is left grounded unless the
\* horizontal step moved it.
C17_Gravity ==
  (~game.paused /\ ~game.over) =>
    \A fill \in Refilled(game.pool, RandFree) :
      \A delta \in GravityDeltas : \A in \in ProbeFlags :
        LET due == game.elapsed + delta >= game.dropInterval
            r   == update(game, delta, in, fill)
        IN  /\ ~due => /\ r.elapsed = game.elapsed + delta
                       /\ r.locks = game.locks => r.current.y = game.current.y
            /\ due => r.elapsed = 0
            /\ (due /\ CanFall(game)) =>
                  /\ r.locks = game.locks
                  /\ r.current.y = game.current.y + 1
                  /\ r.grid = game.grid
            /\ (due /\ ~CanFall(game)) =>
                  /\ r.locks # game.locks => game.lockTimer + delta >= 500
                  /\ r.locks = game.locks =>
                        /\ r.current.y = game.current.y
                        /\ r.grounded \/ r.current.x # game.current.x

\* A running game 800 ms into the interval whose piece has two free rows below:
\* an update of 3000 ms takes it down one row, not two or three.
C17_Witness ==
  /\ ~game.paused /\ ~game.over /\ game.locks = 0
  /\ game.elapsed = 800 /\ game.dropInterval = 1000
  /\ CanFall(game) /\ Fits(game, 0, 2)
  /\ \A fill \in Refilled(game.pool, RandFree) :
       update(game, 3000, INPUT, fill).current.y = game.current.y + 1

\* C20: the gravity step of update goes through softDrop: an update of a
\* running game whose fall is due and whose piece can fall adds exactly 1 to
\* score, the same as softDrop() called by the player; an update whose fall is
\* not due, or is due and blocked, adds nothing unless it locks the piece.
C20_GravityScores ==
  /\ (~game.paused /\ ~game.over) =>
       \A fill \in Refilled(game.pool, RandFree) :
         \A delta \in GravityDeltas : \A in \in ProbeFlags :
           LET due == game.elapsed + delta >= game.dropInterval
               r   == update(game, delta, in, fill)
           IN  /\ (due /\ CanFall(game)) => r.score = game.score + 1
               /\ (~(due /\ CanFall(game)) /\ r.locks = game.locks) =>
                     r.score = game.score
  /\ softDrop(game).g.score = game.score + (IF CanFall(game) THEN 1 ELSE 0)

\* The first I piece lying on the floor, two rows below where it started, with
\* one point for each row and a fall due that is blocked.
C20_Witness ==
  /\ ~game.paused /\ ~game.over /\ game.locks = 0
  /\ game.current.type = "I" /\ game.current.rot = 0
  /\ game.current.y = 2 /\ game.score = 2
  /\ game.elapsed = 800 /\ ~CanFall(game)
  /\ \A fill \in Refilled(game.pool, RandFree) :
       update(game, 200, INPUT, fill).score = 2

\* C18: once the game is over, no update, move, rotate, softDrop, hardDrop or
\* holdPiece call changes the board grid, score, lines or level.
C18_FrozenAfterGameOver ==
  game.over =>
    LET same(r) == /\ r.grid = game.grid /\ r.score = game.score
                   /\ r.lines = game.lines /\ r.level = game.level
    IN  /\ \A fill \in Refilled(game.pool, RandFree) :
             /\ \A delta \in Deltas : \A in \in Flags :
                  same(update(game, delta, in, fill))
             /\ same(hardDrop(game, fill))
             /\ same(holdPiece(game, fill))
        /\ \A d \in {-1, 1} : same(move(game, d)) /\ same(rotate(game, d).g)
        /\ same(softDrop(game).g)

\* C19: in every state reached by commands and updates 0 <= lockTimer < 500,
\* and lockTimer = 0 unless grounded; the same holds after an update of 99 or
\* 100 ms; and a move or rotation after which the piece still cannot fall
\* leaves lockTimer and grounded as they were.
C19_LockTimerBookkeeping ==
  LET ok(g) == /\ 0 <= g.lockTimer /\ g.lockTimer < 500
               /\ ~g.grounded => g.lockTimer = 0
  IN  /\ ok(game)
      /\ \A fill \in Refilled(game.pool, RandFree) : \A delta \in {99, 100} :
           ok(update(game, delta, INPUT, fill))
      /\ \A d \in {-1, 1} :
           LET m == move(game, d)
               r == rotate(game, d).g
           IN  /\ ~CanFall(m) => (m.lockTimer = game.lockTimer /\ m.grounded = game.grounded)
               /\ ~CanFall(r) => (r.lockTimer = game.lockTimer /\ r.grounded = game.grounded)

\* A grounded piece with 400 ms on the lock timer that a move shifts along the
\* floor: the timer keeps running.
C19_Witness ==
  /\ ~game.over /\ game.locks = 0
  /\ game.grounded /\ game.lockTimer = 400
  /\ \E d \in {-1, 1} :
       /\ move(game, d).current.x # game.current.x
       /\ ~CanFall(move(game, d))
       /\ move(game, d).lockTimer = 400

====
